---------------------------- MODULE Spec2Model ----------------------------
(***************************************************************************)
(* Model of 2018/Python/Challenges/Day3.py: main() reads a file of fabric  *)
(* claims "#id @ x,y: wxh", counts on a square grid how many claims cover  *)
(* each cell, prints the number of cells covered more than once, and then  *)
(* prints the id of the first claim all of whose cells are covered once.   *)
(*                                                                         *)
(* A line of the file is a sequence of one-character strings.  One step of *)
(* the model is one loop iteration or one statement of main().            *)
(***************************************************************************)
EXTENDS Integers, Sequences, FiniteSets

(***************************************************************************)
(* Bounds.  The fabric is width x width; main() uses 1000 (line 17), here  *)
(* it is scaled down to the smallest square holding the three-claim        *)
(* example.  A file holds at most MaxLines lines drawn from SampleLines.   *)
(***************************************************************************)
width == 7
MaxLines == 3

(***************************************************************************)
(* The sample lines.  E1..E3 are the known three-claim example.            *)
(***************************************************************************)
\* "#1 @ 1,3: 4x4\n"
E1 == <<"#","1"," ","@"," ","1",",","3",":"," ","4","x","4","\n">>
\* "#2 @ 3,1: 4x4\n"
E2 == <<"#","2"," ","@"," ","3",",","1",":"," ","4","x","4","\n">>
\* "#3 @ 5,5: 2x2\n"
E3 == <<"#","3"," ","@"," ","5",",","5",":"," ","2","x","2","\n">>
\* "#4 @ 0,0: 1x1\n": a single cell
LUnit == <<"#","4"," ","@"," ","0",",","0",":"," ","1","x","1","\n">>
\* "#3 @ 0,0: 2x1\n": id 3 again, over the cell of LUnit
LDup == <<"#","3"," ","@"," ","0",",","0",":"," ","2","x","1","\n">>
\* "#6 @ 2,2: 0x3\n": zero width
LZero == <<"#","6"," ","@"," ","2",",","2",":"," ","0","x","3","\n">>
\* "x#08 @ 05,0: 2x1z\n": text around the pattern, leading zeros, x + w = 7
LJunk == <<"x","#","0","8"," ","@"," ","0","5",",","0",":"," ","2","x","1","z","\n">>
\* "#9 @ 6,6: 9x1\n": reaches past the fabric
LBig == <<"#","9"," ","@"," ","6",",","6",":"," ","9","x","1","\n">>
\* "\n": an empty line
LEmpty == <<"\n">>
\* "#7 @ 1,1: 2\n": the height is missing
LShort == <<"#","7"," ","@"," ","1",",","1",":"," ","2","\n">>

SampleLines == {E1, E2, E3, LUnit, LDup, LZero, LJunk, LBig, LEmpty, LShort}

Files == UNION {[1..n -> SampleLines] : n \in 0..MaxLines}

(***************************************************************************)
(* The pattern r"#(\d+) @ (\d+),(\d+): (\d+)x(\d+)" and pattern.search.    *)
(***************************************************************************)
Digits == <<"0","1","2","3","4","5","6","7","8","9">>

IsDigit(c) == \E d \in 1..10 : Digits[d] = c

DigitVal(c) == (CHOOSE d \in 1..10 : Digits[d] = c) - 1

\* The length of the longest run of digits of s that starts at position p:
\* what a greedy \d+ takes (0: \d+ does not match at p).
RECURSIVE DigitRun(_, _)
DigitRun(s, p) ==
    IF p <= Len(s) /\ IsDigit(s[p]) THEN 1 + DigitRun(s, p + 1) ELSE 0

\* int() of the n digits of s that start at p.
RECURSIVE ToInt(_, _, _)
ToInt(s, p, n) ==
    IF n = 0 THEN 0 ELSE 10 * ToInt(s, p, n - 1) + DigitVal(s[p + n - 1])

\* The literal text lit stands in s at position p.
Lit(s, p, lit) ==
    /\ p + Len(lit) - 1 <= Len(s)
    /\ \A k \in 1..Len(lit) : s[p + k - 1] = lit[k]

NoMatch == <<>>

\* The five groups, converted by int(), of a match of the pattern that starts
\* at position p of s, or NoMatch.  Each \d+ is followed in the pattern by a
\* character that is no digit (or by the end), so the only run of digits a
\* match can take is the longest one.
MatchAt(s, p) ==
    LET a1 == p + 1
        n1 == DigitRun(s, a1)
        a2 == a1 + n1 + 3
        n2 == DigitRun(s, a2)
        a3 == a2 + n2 + 1
        n3 == DigitRun(s, a3)
        a4 == a3 + n3 + 2
        n4 == DigitRun(s, a4)
        a5 == a4 + n4 + 1
        n5 == DigitRun(s, a5)
    IN  IF /\ Lit(s, p, <<"#">>) /\ n1 > 0
           /\ Lit(s, a1 + n1, <<" ", "@", " ">>) /\ n2 > 0
           /\ Lit(s, a2 + n2, <<",">>) /\ n3 > 0
           /\ Lit(s, a3 + n3, <<":", " ">>) /\ n4 > 0
           /\ Lit(s, a4 + n4, <<"x">>) /\ n5 > 0
        THEN <<ToInt(s, a1, n1), ToInt(s, a2, n2), ToInt(s, a3, n3),
               ToInt(s, a4, n4), ToInt(s, a5, n5)>>
        ELSE NoMatch

\* The scan of search(): the match at the first position, from p on, where
\* the pattern matches, or NoMatch.
RECURSIVE SearchFrom(_, _)
SearchFrom(s, p) ==
    IF p > Len(s) THEN NoMatch
    ELSE LET m == MatchAt(s, p)
         IN  IF m # NoMatch THEN m ELSE SearchFrom(s, p + 1)

\* pattern.search(line): the leftmost match, or NoMatch (None).
Search(s) == SearchFrom(s, 1)

(***************************************************************************)
(* The fabric: Grid(width, width, 0), a dense array of counters addressed   *)
(* by (x, y).                                                              *)
(***************************************************************************)
Cells == (0..(width - 1)) \X (0..(width - 1))

GridNew == [c \in Cells |-> 0]

InBounds(c) == c \in Cells

\* Mutant: the range stops one short.
RangeEnd_short(a, n) == a + n - 1

\* Mutant: the range runs one too far.
RangeEnd_long(a, n) == a + n + 1

\* range(a, a + n) stops before a + n.
RangeEnd(a, n) == a + n

\* Mutant: the cell is raised by 2.
Incr_twice(v) == v + 2

\* fabric[(i, j)] += 1
Incr(v) == v + 1

\* Mutant: "if i >= 1".
Overlapped_geq(v) == v >= 1

\* "if i > 1" of the part-one sum.
Overlapped(v) == v > 1

\* sum(1 for i in fabric if i > 1)
OverlapCount(f) == Cardinality({c \in Cells : Overlapped(f[c])})

\* Mutant: "if fabric[(i, j)] != 0".
Taken_nonzero(v) == v # 0

\* "if fabric[(i, j)] != 1": another request overlaps this cell.
Taken(v) == v # 1

\* claims[key] = val on a dict kept as the sequence of its items in insertion
\* order: a key already present keeps its place and takes the new value.
DictSet(d, key, val) ==
    IF \E n \in 1..Len(d) : d[n].req = key
    THEN [n \in 1..Len(d) |-> IF d[n].req = key
                              THEN [req |-> key, rect |-> val] ELSE d[n]]
    ELSE Append(d, [req |-> key, rect |-> val])

VARIABLES
    lines,    \* the lines of the input file
    idx,      \* how many lines the "for line in f" loop has taken
    pc,       \* where main() is
    err,      \* the exception that ended the run, "" if none
    fabric,   \* the grid of use counts
    claims,   \* the dict id -> rectangle, as its items in insertion order
    req, x, y, w, h,   \* the locals of the same names
    i, j,     \* the next values the range loops yield
    k,        \* how many items the claims.items() loop has taken
    out,      \* the lines printed so far
    access,   \* the grid index the last step used, if it used one
    hits      \* history: increments made for the line being accumulated

vars == <<lines, idx, pc, err, fabric, claims, req, x, y, w, h, i, j, k, out,
          access, hits>>

Init ==
    /\ lines \in Files
    /\ idx = 0
    /\ pc = "read"
    /\ err = ""
    /\ fabric = GridNew
    /\ claims = <<>>
    /\ req = 0 /\ x = 0 /\ y = 0 /\ w = 0 /\ h = 0
    /\ i = 0 /\ j = 0
    /\ k = 0
    /\ out = <<>>
    /\ access = {}
    /\ hits = 0

(***************************************************************************)
(* Reading and accumulating (lines 24-38).                                 *)
(***************************************************************************)
\* The next line matches: its five numbers are unpacked, the rectangle is
\* stored under its id, and the loops over its cells start.
ReadLine ==
    /\ pc = "read"
    /\ idx < Len(lines)
    /\ LET g == Search(lines[idx + 1]) IN
        /\ g # NoMatch
        /\ req' = g[1] /\ x' = g[2] /\ y' = g[3] /\ w' = g[4] /\ h' = g[5]
        /\ claims' = DictSet(claims, g[1], <<g[2], g[3], g[4], g[5]>>)
        /\ i' = g[2] /\ j' = g[3]
    /\ idx' = idx + 1
    /\ pc' = "acc"
    /\ access' = {}
    /\ hits' = 0
    /\ UNCHANGED <<lines, err, fabric, k, out>>

\* Mutant: a line that does not match is skipped.
ParseFail_skip ==
    /\ pc = "read"
    /\ idx < Len(lines)
    /\ Search(lines[idx + 1]) = NoMatch
    /\ idx' = idx + 1
    /\ access' = {}
    /\ UNCHANGED <<lines, pc, err, fabric, claims, req, x, y, w, h, i, j, k, out,
                   hits>>

\* The next line does not match: search() gives None and None.groups()
\* raises; nothing catches it.
ParseFail ==
    /\ pc = "read"
    /\ idx < Len(lines)
    /\ Search(lines[idx + 1]) = NoMatch
    /\ idx' = idx + 1
    /\ pc' = "error"
    /\ err' = "AttributeError"
    /\ access' = {}
    /\ UNCHANGED <<lines, fabric, claims, req, x, y, w, h, i, j, k, out, hits>>

\* fabric[(i, j)] += 1 for the next cell of the rectangle.
AccCell ==
    /\ pc = "acc"
    /\ i < RangeEnd(x, w)
    /\ j < RangeEnd(y, h)
    /\ InBounds(<<i, j>>)
    /\ fabric' = [fabric EXCEPT ![<<i, j>>] = Incr(@)]
    /\ j' = j + 1
    /\ access' = {<<i, j>>}
    /\ hits' = hits + 1
    /\ UNCHANGED <<lines, idx, pc, err, claims, req, x, y, w, h, i, k, out>>

\* The cell is outside the fabric: the grid refuses the index.
AccOutside ==
    /\ pc = "acc"
    /\ i < RangeEnd(x, w)
    /\ j < RangeEnd(y, h)
    /\ ~InBounds(<<i, j>>)
    /\ pc' = "error"
    /\ err' = "IndexError"
    /\ access' = {<<i, j>>}
    /\ UNCHANGED <<lines, idx, fabric, claims, req, x, y, w, h, i, j, k, out,
                   hits>>

\* The inner range is exhausted: the outer loop takes its next i.
AccNextColumn ==
    /\ pc = "acc"
    /\ i < RangeEnd(x, w)
    /\ j >= RangeEnd(y, h)
    /\ i' = i + 1
    /\ j' = y
    /\ access' = {}
    /\ UNCHANGED <<lines, idx, pc, err, fabric, claims, req, x, y, w, h, k, out,
                   hits>>

\* The outer range is exhausted: back to the file for the next line.
AccDone ==
    /\ pc = "acc"
    /\ i >= RangeEnd(x, w)
    /\ pc' = "read"
    /\ access' = {}
    /\ UNCHANGED <<lines, idx, err, fabric, claims, req, x, y, w, h, i, j, k, out,
                   hits>>

\* The file is exhausted and closed.
EndOfFile ==
    /\ pc = "read"
    /\ idx = Len(lines)
    /\ pc' = "count"
    /\ access' = {}
    /\ UNCHANGED <<lines, idx, err, fabric, claims, req, x, y, w, h, i, j, k, out,
                   hits>>

(***************************************************************************)
(* Part one (lines 40-42).                                                 *)
(***************************************************************************)
PartOne ==
    /\ pc = "count"
    /\ out' = Append(out, [kind |-> "one", val |-> OverlapCount(fabric)])
    /\ pc' = "two"
    /\ access' = {}
    /\ UNCHANGED <<lines, idx, err, fabric, claims, req, x, y, w, h, i, j, k,
                   hits>>

(***************************************************************************)
(* Part two (lines 44-58).                                                 *)
(***************************************************************************)
\* The claims.items() loop takes its next item.
TwoNextClaim ==
    /\ pc = "two"
    /\ k < Len(claims)
    /\ k' = k + 1
    /\ LET c == claims[k + 1] IN
        /\ req' = c.req
        /\ x' = c.rect[1] /\ y' = c.rect[2] /\ w' = c.rect[3] /\ h' = c.rect[4]
        /\ i' = c.rect[1] /\ j' = c.rect[2]
    /\ pc' = "chk"
    /\ access' = {}
    /\ UNCHANGED <<lines, idx, err, fabric, claims, out, hits>>

\* Mutant: the print is the else clause of the claims.items() loop.
TwoExhausted_print ==
    /\ pc = "two"
    /\ k = Len(claims)
    /\ out' = Append(out, [kind |-> "two", val |-> req])
    /\ pc' = "done"
    /\ access' = {}
    /\ UNCHANGED <<lines, idx, err, fabric, claims, req, x, y, w, h, i, j, k,
                   hits>>

\* The claims.items() loop is exhausted: main() falls off its end.
TwoExhausted ==
    /\ pc = "two"
    /\ k = Len(claims)
    /\ pc' = "done"
    /\ access' = {}
    /\ UNCHANGED <<lines, idx, err, fabric, claims, req, x, y, w, h, i, j, k, out,
                   hits>>

\* The cell's count is 1: on to the next j.
ChkFree ==
    /\ pc = "chk"
    /\ i < RangeEnd(x, w)
    /\ j < RangeEnd(y, h)
    /\ ~Taken(fabric[<<i, j>>])
    /\ j' = j + 1
    /\ access' = {<<i, j>>}
    /\ UNCHANGED <<lines, idx, pc, err, fabric, claims, req, x, y, w, h, i, k, out,
                   hits>>

\* Mutant: the break leaves the inner loop only, the outer loop goes on.
ChkBreak_inner ==
    /\ pc = "chk"
    /\ i < RangeEnd(x, w)
    /\ j < RangeEnd(y, h)
    /\ Taken(fabric[<<i, j>>])
    /\ i' = i + 1
    /\ j' = y
    /\ access' = {<<i, j>>}
    /\ UNCHANGED <<lines, idx, pc, err, fabric, claims, req, x, y, w, h, k, out,
                   hits>>

\* The cell's count is not 1: break out of the inner loop, skip its else,
\* break out of the outer loop, skip its else.
ChkBreak ==
    /\ pc = "chk"
    /\ i < RangeEnd(x, w)
    /\ j < RangeEnd(y, h)
    /\ Taken(fabric[<<i, j>>])
    /\ pc' = "two"
    /\ access' = {<<i, j>>}
    /\ UNCHANGED <<lines, idx, err, fabric, claims, req, x, y, w, h, i, j, k, out,
                   hits>>

\* The inner loop ended without break: its else clause continues the outer.
ChkNextColumn ==
    /\ pc = "chk"
    /\ i < RangeEnd(x, w)
    /\ j >= RangeEnd(y, h)
    /\ i' = i + 1
    /\ j' = y
    /\ access' = {}
    /\ UNCHANGED <<lines, idx, pc, err, fabric, claims, req, x, y, w, h, k, out,
                   hits>>

\* Mutant: the return is missing, the claims.items() loop goes on.
ChkWin_noreturn ==
    /\ pc = "chk"
    /\ i >= RangeEnd(x, w)
    /\ out' = Append(out, [kind |-> "two", val |-> req])
    /\ pc' = "two"
    /\ access' = {}
    /\ UNCHANGED <<lines, idx, err, fabric, claims, req, x, y, w, h, i, j, k,
                   hits>>

\* The outer loop ended without break: its else clause prints and returns.
ChkWin ==
    /\ pc = "chk"
    /\ i >= RangeEnd(x, w)
    /\ out' = Append(out, [kind |-> "two", val |-> req])
    /\ pc' = "done"
    /\ access' = {}
    /\ UNCHANGED <<lines, idx, err, fabric, claims, req, x, y, w, h, i, j, k,
                   hits>>

Next ==
    \/ ReadLine
    \/ ParseFail
    \/ AccCell
    \/ AccOutside
    \/ AccNextColumn
    \/ AccDone
    \/ EndOfFile
    \/ PartOne
    \/ TwoNextClaim
    \/ TwoExhausted
    \/ ChkFree
    \/ ChkBreak
    \/ ChkNextColumn
    \/ ChkWin

Spec == Init /\ [][Next]_vars

(***************************************************************************)
(* What the claims speak of, stated apart from the loops above.            *)
(***************************************************************************)
\* The cells of the rectangle [rx, rx + rw) x [ry, ry + rh).
RectCells(rx, ry, rw, rh) ==
    {c \in (rx..(rx + rw - 1)) \X (ry..(ry + rh - 1)) : TRUE}

Accepted(n) == Search(lines[n]) # NoMatch

\* The rectangle of the n-th line of the file.
LineRect(n) ==
    LET g == Search(lines[n]) IN RectCells(g[2], g[3], g[4], g[5])

\* The rectangles of the lines of the file, in order.
RECURSIVE LineRectsUpTo(_)
LineRectsUpTo(n) ==
    IF n = 0 THEN <<>> ELSE Append(LineRectsUpTo(n - 1), LineRect(n))

LineRects == LineRectsUpTo(Len(lines))

\* How many of the rectangles rs contain cell c.
CoverCount(rs, c) == Cardinality({n \in 1..Len(rs) : c \in rs[n]})

\* The rectangle stored in the claims mapping at place n.
ClaimRect(n) ==
    LET r == claims[n].rect IN RectCells(r[1], r[2], r[3], r[4])

\* Every cell of the n-th claim of the mapping has value exactly 1.
Clean(n) == \A c \in ClaimRect(n) : fabric[c] = 1

SomeClean == \E n \in 1..Len(claims) : Clean(n)

\* The file has been read to its end and accumulated.
Accumulated == pc \in {"count", "two", "chk", "done"}

\* The "Part two ID:" lines printed so far.
TwoLines == {m \in 1..Len(out) : out[m].kind = "two"}

\* The file is the three-claim example, in some order.
IsExample ==
    /\ Len(lines) = 3
    /\ {lines[n] : n \in 1..3} = {E1, E2, E3}

\* The last line of the file that carries id r: the one whose rectangle the
\* mapping holds for r.
LastLineOf(r) ==
    CHOOSE n \in 1..Len(lines) :
        /\ Search(lines[n])[1] = r
        /\ \A m \in (n + 1)..Len(lines) : Search(lines[m])[1] # r

\* The number that follows the first '#' of s.
NumberAfterHash(s) ==
    LET p == CHOOSE q \in 1..Len(s) :
                 s[q] = "#" /\ \A q2 \in 1..(q - 1) : s[q2] # "#"
    IN  ToInt(s, p + 1, DigitRun(s, p + 1))

(***************************************************************************)
(* The claims.                                                             *)
(***************************************************************************)

\* C1: once every line of the file has been accumulated (all rectangles
\* inside the grid), the value of every grid cell is the number of lines
\* whose rectangle contains that cell.
C1_CellCounts ==
    Accumulated =>
        LET rs == LineRects IN
            (\A n \in 1..Len(rs) : rs[n] \subseteq Cells)
                => \A c \in Cells : fabric[c] = CoverCount(rs, c)

\* Three lines are accumulated and some cell lies under all three.
C1_Witness ==
    /\ pc = "count"
    /\ Len(lines) = 3
    /\ \E c \in Cells : fabric[c] = 3

\* C2: the integer of the "Part one count:" line is the number of grid
\* cells whose value is greater than 1, which is the number of cells that
\* two or more claims cover; for the three-claim example it is 4.
C2_PartOneCount ==
    \A m \in 1..Len(out) :
        out[m].kind = "one" =>
            LET rs == LineRects IN
                /\ out[m].val = Cardinality({c \in Cells : fabric[c] > 1})
                /\ out[m].val =
                       Cardinality({c \in Cells : CoverCount(rs, c) >= 2})
                /\ IsExample => out[m].val = 4

\* The example has been counted.
C2_Witness ==
    /\ IsExample
    /\ pc = "two"
    /\ out = <<[kind |-> "one", val |-> 4]>>

\* C3: part two prints id r exactly if r is the first claim, in the order
\* of the mapping, all of whose cells have value 1; at most one "Part two
\* ID:" line is printed; for the three-claim example the id is 3.
C3_FirstCleanClaim ==
    /\ Cardinality(TwoLines) <= 1
    /\ \A m \in TwoLines :
           \E n \in 1..Len(claims) :
               /\ claims[n].req = out[m].val
               /\ Clean(n)
               /\ \A n2 \in 1..(n - 1) : ~Clean(n2)
    /\ (pc = "done" /\ SomeClean) => TwoLines # {}
    /\ (pc = "done" /\ IsExample) => \E m \in TwoLines : out[m].val = 3

\* A claim that is not the first of the mapping has won.
C3_Witness ==
    /\ pc = "done"
    /\ \E m \in TwoLines : out[m].val = 3
    /\ Len(claims) = 3
    /\ claims[3].req = 3

\* C4: when "Part two ID: r" is printed, the rectangle stored for r shares
\* no cell with the rectangle of any other line of the file.
C4_WinnerDisjoint ==
    \A m \in TwoLines :
        \A n \in 1..Len(claims) :
            claims[n].req = out[m].val =>
                \A l \in 1..Len(lines) :
                    l # LastLineOf(out[m].val)
                        => LineRect(l) \cap ClaimRect(n) = {}

\* A claim has won against two earlier ones that overlap each other.
C4_Witness ==
    /\ TwoLines # {}
    /\ Len(lines) = 3
    /\ \E c \in Cells : fabric[c] = 2

\* C5 as stated: every run that exits normally has printed exactly two
\* lines, "Part one count:" and then "Part two ID:".
C5_ExactlyTwoLines ==
    pc = "done" =>
        /\ Len(out) = 2
        /\ out[1].kind = "one"
        /\ out[2].kind = "two"

\* C5 as amended: every run that exits normally has printed "Part one
\* count:" first and after it at most one "Part two ID:" line, which is
\* there exactly if some claim of the mapping has all its cells at 1.
C5_OneThenAtMostTwo ==
    pc = "done" =>
        /\ Len(out) \in {1, 2}
        /\ out[1].kind = "one"
        /\ Len(out) = 2 => out[2].kind = "two"
        /\ Len(out) = 2 <=> SomeClean

\* A normal exit after both lines.
C5_Witness ==
    /\ pc = "done"
    /\ Len(out) = 2
    /\ Len(claims) >= 2

\* C6: if no claim of the mapping has all its cells at 1, main() prints
\* the "Part one count:" line, prints no "Part two ID:" line, and ends
\* normally: it raises nothing and never stops short of its end.
C6_NoWinnerSilent ==
    (Accumulated /\ ~SomeClean) =>
        /\ err = ""
        /\ TwoLines = {}
        /\ pc # "count" => (Len(out) = 1 /\ out[1].kind = "one")
        /\ pc # "done" => ENABLED Next

\* A run over claims that all overlap has ended.
C6_Witness ==
    /\ pc = "done"
    /\ Len(claims) >= 2
    /\ ~SomeClean
    /\ Len(out) = 1

\* C7: a line that does not match the pattern ends the run at that line:
\* the loop never gets past it, the run is in error as soon as the line is
\* taken, and nothing is ever printed.
C7_MalformedAborts ==
    \A n \in 1..Len(lines) :
        ~Accepted(n) =>
            /\ idx <= n
            /\ out = <<>>
            /\ idx = n => (pc = "error" /\ err = "AttributeError")

\* The run ended at a malformed second line, with a line left unread.
C7_Witness ==
    /\ pc = "error"
    /\ err = "AttributeError"
    /\ idx = 2
    /\ Len(lines) = 3
    /\ Len(claims) = 1

\* C8: for every line the parser accepts, the rectangle stored in the
\* mapping has width > 0 and height > 0, and is stored under the number
\* that follows '#' on the line.
C8_PositiveExtent ==
    (pc = "acc" /\ hits = 0 /\ i = x /\ j = y) =>
        \E n \in 1..Len(claims) :
            /\ claims[n].req = NumberAfterHash(lines[idx])
            /\ claims[n].rect = <<x, y, w, h>>
            /\ claims[n].rect[3] > 0
            /\ claims[n].rect[4] > 0

\* C9: for a claim with x + w <= width and y + h <= width, every grid index
\* that accumulation and the part-two check use lies in 0..width-1 on both
\* axes; a claim with w = 1 and h = 1 increments exactly one cell.
C9_InsideAccess ==
    /\ (x + w <= width /\ y + h <= width) =>
           \A c \in access :
               /\ 0 <= c[1] /\ c[1] < width
               /\ 0 <= c[2] /\ c[2] < width
    /\ (pc \in {"acc", "read"} /\ w = 1 /\ h = 1) => hits <= 1
    /\ (pc = "read" /\ idx > 0 /\ w = 1 /\ h = 1) =>
           (hits = 1 /\ fabric[<<x, y>>] >= 1)

\* The part-two check reads the last column of the grid for a claim that
\* ends at the grid's edge.
C9_Witness ==
    /\ pc = "chk"
    /\ x + w = width
    /\ access = {<<width - 1, y>>}

\* C10: the grid changes only in accumulation steps, each of which raises
\* exactly one cell by exactly 1; no cell is ever below 0; and from the
\* part-one scan on, neither the grid nor the claims mapping changes.
C10_GridFrame ==
    [][/\ \A c \in Cells : fabric[c] >= 0 /\ fabric'[c] >= fabric[c]
       /\ fabric' # fabric =>
              /\ pc = "acc"
              /\ \E c \in Cells : fabric' = [fabric EXCEPT ![c] = @ + 1]
       /\ Accumulated => (fabric' = fabric /\ claims' = claims)]_vars

\* The part-two check is reading a grid on which claims overlap.
C10_Witness ==
    /\ pc = "chk"
    /\ access # {}
    /\ \E c \in Cells : fabric[c] = 2

=============================================================================
